---- MODULE Spec2Model ----
(***************************************************************************)
(* A model of src/main.py: the placeholder engine (extract_placeholders,   *)
(* replace_placeholders), the metadata accessor for .docx and .pdf files   *)
(* (read / write / clear, with the temp-file-then-move write discipline)   *)
(* and the session state of CurriculumApp.                                 *)
(*                                                                         *)
(* Text is a sequence of one-character strings.  A paragraph is the        *)
(* sequence of the texts of its runs; a document is a record of its body   *)
(* paragraphs, its tables (rows of cells of paragraphs) and its sections   *)
(* (header and footer paragraphs).                                         *)
(***************************************************************************)
EXTENDS Integers, Sequences, FiniteSets, TLC

VARIABLES
    pc,            \* position of the function under study
    doc,           \* the document loaded by Document(docx_path)
    replacements,  \* dict[str, str] as the sequence of its items, in order
    names,         \* return value of extract_placeholders
    outdoc         \* the document saved by replace_placeholders

engineVars == <<pc, doc, replacements, names, outdoc>>

VARIABLES
    mpc,           \* position inside the metadata function being run
    call,          \* the metadata function being run and its arguments
    target,        \* the bytes of the file at path, as a sequence of blocks
    tmpfile,       \* the bytes of the temporary file, or NoFile
    memdoc,        \* the in-memory document / PdfWriter to be saved
    before,        \* the bytes of the file at path when the call started
    failedAt,      \* the step that raised, if one did
    sameDevice,    \* the temporary directory is on the file system of path
    readback       \* the dict returned by the read after the call

metaVars ==
    <<mpc, call, target, tmpfile, memdoc, before, failedAt, sameDevice, readback>>

VARIABLES
    fs,                   \* the files on disk, by path
    template_path,        \* CurriculumApp.template_path ("" for None)
    placeholder_entries,  \* CurriculumApp.placeholder_entries: name and text, in order
    editing_path,         \* CurriculumApp.editing_path ("" for None)
    edit_entries,         \* the text of the four CurriculumApp.edit_entries
    metadata_text,        \* the dict shown in CurriculumApp.metadata_text
    message,              \* the message box the last handler showed
    lastOp,               \* the last handler run
    lastScanned,          \* the names returned to the last _load_template that got some
    prevSession,          \* the session state when the last handler started
    prevFs,               \* the files on disk when the last handler started
    ops                   \* the number of handlers run

appVars ==
    <<fs, template_path, placeholder_entries, editing_path, edit_entries,
      metadata_text, message, lastOp, lastScanned, prevSession, prevFs, ops>>

vars == <<engineVars, metaVars, appVars>>

-----------------------------------------------------------------------------
(* Bounds of the model *)

\* longest paragraph text enumerated exhaustively for the scanner
MaxLen == 6
\* longest paragraph text enumerated exhaustively for the substitutor
MaxTextLen == 5

-----------------------------------------------------------------------------
(* Characters and strings *)

LB == "{"
RB == "}"

\* code point of a character (Python compares str by code point)
Ord(c) ==
    CASE c = "-" -> 45
      [] c = "0" -> 48
      [] c = "A" -> 65
      [] c = "B" -> 66
      [] c = "_" -> 95
      [] c = "a" -> 97
      [] c = "{" -> 123
      [] c = "}" -> 125

\* the characters of the model that are in the class [A-Za-z0-9_]
NameChars == {"0", "A", "B", "_", "a"}

RECURSIVE StringsUpTo(_, _)
StringsUpTo(alphabet, n) ==
    IF n = 0 THEN {<<>>}
    ELSE LET shorter == StringsUpTo(alphabet, n - 1)
         IN  shorter \cup {Append(s, c) : s \in shorter, c \in alphabet}

\* "{{" + name + "}}", the f-string of replace_in_paragraphs
Token(name) == <<LB, LB>> \o name \o <<RB, RB>>

StartsWithAt(s, i, t) ==
    /\ i + Len(t) - 1 <= Len(s)
    /\ \A k \in 1..Len(t) : s[i + k - 1] = t[k]

\* s < t for Python str: lexicographic by code point
StrLess(s, t) ==
    \E k \in 1..(Len(t)) :
        /\ \A j \in 1..(k - 1) : j <= Len(s) /\ s[j] = t[j]
        /\ \/ k = Len(s) + 1
           \/ k <= Len(s) /\ Ord(s[k]) < Ord(t[k])

\* sorted(found)
RECURSIVE sorted(_)
sorted(S) ==
    IF S = {} THEN <<>>
    ELSE LET m == CHOOSE x \in S : \A y \in S \ {x} : StrLess(x, y)
         IN  <<m>> \o sorted(S \ {m})

Range(f) == {f[i] : i \in DOMAIN f}

RECURSIVE Concat(_)
Concat(ss) == IF ss = <<>> THEN <<>> ELSE Head(ss) \o Concat(Tail(ss))

\* paragraph.text: the concatenation of the runs' text
ParagraphText(paragraph) == Concat(paragraph)

-----------------------------------------------------------------------------
(* PLACEHOLDER_PATTERN.findall *)

\* length of the longest run of class characters starting at position i
RECURSIVE NameRun(_, _)
NameRun(s, i) ==
    IF i <= Len(s) /\ s[i] \in NameChars THEN 1 + NameRun(s, i + 1) ELSE 0

\* the pattern matches at position i: \{\{ ([A-Za-z0-9_]+) \}\}
MatchLen(s, i) ==
    IF StartsWithAt(s, i, <<LB, LB>>)
    THEN LET n == NameRun(s, i + 2)
         IN  IF n >= 1 /\ StartsWithAt(s, i + 2 + n, <<RB, RB>>) THEN n ELSE 0
    ELSE 0

\* findall: leftmost matches, scanning resumes after the end of each match
RECURSIVE FindAllFrom(_, _)
FindAllFrom(s, i) ==
    IF i > Len(s) THEN <<>>
    ELSE LET n == MatchLen(s, i)
         IN  IF n > 0
             THEN <<SubSeq(s, i + 2, i + 1 + n)>> \o FindAllFrom(s, i + n + 4)
             ELSE FindAllFrom(s, i + 1)

\* a scan that stops at the first match (search in place of findall)
FindFirst(s) ==
    LET all == FindAllFrom(s, 1) IN IF all = <<>> THEN <<>> ELSE <<Head(all)>>

FindAll(s) == FindAllFrom(s, 1)

-----------------------------------------------------------------------------
(* extract_placeholders *)

\* the names one call of collect_from_paragraphs adds to found
collect_from_paragraphs(paragraphs) ==
    UNION {Range(FindAll(ParagraphText(paragraphs[i]))) : i \in DOMAIN paragraphs}

\* for table in document.tables: for row in table.rows: for cell in row.cells
collect_from_tables(tables) ==
    UNION {UNION {UNION {collect_from_paragraphs(tables[t].rows[r][c]) :
                           c \in DOMAIN tables[t].rows[r]} :
                    r \in DOMAIN tables[t].rows} :
             t \in DOMAIN tables}

\* for section in document.sections: header, then footer
collect_from_sections(sections) ==
    UNION {collect_from_paragraphs(sections[s].header)
             \cup collect_from_paragraphs(sections[s].footer) :
             s \in DOMAIN sections}

extract_placeholders(d) ==
    sorted(collect_from_paragraphs(d.paragraphs)
             \cup collect_from_tables(d.tables)
             \cup collect_from_sections(d.sections))

-----------------------------------------------------------------------------
(* replace_placeholders *)

\* str.replace(old, new) for a non-empty old: every non-overlapping
\* occurrence, left to right
RECURSIVE StrReplace(_, _, _)
StrReplace(s, old, new) ==
    IF s = <<>> THEN <<>>
    ELSE IF StartsWithAt(s, 1, old)
         THEN new \o StrReplace(SubSeq(s, Len(old) + 1, Len(s)), old, new)
         ELSE <<Head(s)>> \o StrReplace(Tail(s), old, new)

\* the loop over replacements.items(): one str.replace per key, in order,
\* each applied to the result of the one before
RECURSIVE SubstituteAll(_, _)
SubstituteAll(text, items) ==
    IF items = <<>> THEN text
    ELSE SubstituteAll(StrReplace(text, Token(Head(items).key), Head(items).value),
                       Tail(items))

\* the loop body without its test new_text != original_text
replace_in_paragraph_always(paragraph, items) ==
    <<SubstituteAll(ParagraphText(paragraph), items)>>

\* the body of the loop of replace_in_paragraphs: the paragraph's runs after it
replace_in_paragraph(paragraph, items) ==
    LET original_text == ParagraphText(paragraph)
        new_text == SubstituteAll(original_text, items)
    IN  IF new_text # original_text THEN <<new_text>> ELSE paragraph

replace_in_paragraphs(paragraphs, items) ==
    [i \in DOMAIN paragraphs |-> replace_in_paragraph(paragraphs[i], items)]

\* the document that document.save(output_path) writes
replace_placeholders(d, items) ==
    [paragraphs |-> replace_in_paragraphs(d.paragraphs, items),
     tables |->
        [t \in DOMAIN d.tables |->
            [rows |-> [r \in DOMAIN d.tables[t].rows |->
                [c \in DOMAIN d.tables[t].rows[r] |->
                    replace_in_paragraphs(d.tables[t].rows[r][c], items)]]]],
     sections |->
        [s \in DOMAIN d.sections |->
            [header |-> replace_in_paragraphs(d.sections[s].header, items),
             footer |-> replace_in_paragraphs(d.sections[s].footer, items)]]]

-----------------------------------------------------------------------------
(* Values of the metadata accessor *)

\* Python's None, and a value that is not None
None == <<>>
Some(s) == <<s>>

NoFile == "no file"
NoCall == [fn |-> "none"]

\* the metadata accessor is not in use
MetaIdle ==
    /\ mpc = "unused"
    /\ call = NoCall
    /\ target = <<>>
    /\ tmpfile = NoFile
    /\ memdoc = None
    /\ before = <<>>
    /\ failedAt = "none"
    /\ sameDevice = TRUE
    /\ readback = None

\* the application is not in use
AppIdle ==
    /\ fs = <<>>
    /\ template_path = ""
    /\ placeholder_entries = <<>>
    /\ editing_path = ""
    /\ edit_entries = <<>>
    /\ metadata_text = None
    /\ message = "none"
    /\ lastOp = "none"
    /\ lastScanned = <<>>
    /\ prevSession = <<>>
    /\ prevFs = <<>>
    /\ ops = 0

-----------------------------------------------------------------------------
(* The documents and replacement maps the engine is run on *)

EmptySection == [header |-> <<>>, footer |-> <<>>]

BodyOnly(paragraph) ==
    [paragraphs |-> <<paragraph>>, tables |-> <<>>, sections |-> <<EmptySection>>]

OneRowTable(cells) == [rows |-> <<cells>>]

\* "{{a}}" in one run
ParaLower == <<Token(<<"a">>)>>
\* "{{B}}-{{A0}}", the first token split over two runs
ParaSplit == << <<LB, LB, "B">>, <<RB, RB, "-">> \o Token(<<"A", "0">>) >>
\* "{{-}}": braces around a character outside the class, in two runs
ParaNoToken == << <<LB, LB>>, <<"-", RB, RB>> >>
\* "{{_}}{{a}}"
ParaUnderscore == <<Token(<<"_">>) \o Token(<<"a">>)>>
\* a paragraph without runs
ParaEmpty == <<>>

ScanParas == {ParaEmpty, ParaLower, ParaSplit, ParaNoToken, ParaUnderscore}

ScanAlphabet == {LB, RB, "A", "-"}

SampleDocs(paras) ==
    {[paragraphs |-> b, tables |-> t, sections |-> s] :
        b \in {<<p>> : p \in paras} \cup {<<ParaLower, ParaSplit>>},
        t \in {<<>>} \cup {<<OneRowTable(<< <<p>>, <<q>> >>)>> : p, q \in paras},
        s \in {<<[header |-> <<h>>, footer |-> <<f>>]>> : h, f \in paras}
              \cup {<<[header |-> <<>>, footer |-> <<f>>],
                      [header |-> <<h>>, footer |-> <<>>]>> : h, f \in paras}}

ScanDocs ==
    {BodyOnly(<<t>>) : t \in StringsUpTo(ScanAlphabet, MaxLen)}
        \cup SampleDocs(ScanParas)

NoDoc == BodyOnly(<<>>)

-----------------------------------------------------------------------------
(* Specification SpecScan: extract_placeholders on every document of ScanDocs *)

InitScan ==
    /\ pc = "scan"
    /\ doc \in ScanDocs
    /\ replacements = <<>>
    /\ names = <<>>
    /\ outdoc = NoDoc
    /\ MetaIdle
    /\ AppIdle

ExtractPlaceholders ==
    /\ pc = "scan"
    /\ names' = extract_placeholders(doc)
    /\ pc' = "scanned"
    /\ UNCHANGED <<doc, replacements, outdoc, metaVars, appVars>>

NextScan == ExtractPlaceholders

SpecScan == InitScan /\ [][NextScan]_vars

-----------------------------------------------------------------------------
(* C1 *)

\* every paragraph of the visible text: body, table cells, headers, footers
AllParagraphs(d) ==
    Range(d.paragraphs)
      \cup UNION {UNION {UNION {Range(cell) : cell \in Range(row)} :
                           row \in Range(table.rows)} :
                    table \in Range(d.tables)}
      \cup UNION {Range(d.sections[s].header) \cup Range(d.sections[s].footer) :
                    s \in DOMAIN d.sections}

IsName(n) == Len(n) >= 1 /\ \A k \in 1..Len(n) : n[k] \in NameChars

Occurs(t, s) == \E i \in 1..Len(s) : StartsWithAt(s, i, t)

\* the names N such that {{N}} is a substring of s
TokenNames(s) ==
    {n \in {SubSeq(s, i, j) : i, j \in 1..Len(s)} : IsName(n) /\ Occurs(Token(n), s)}

DocTokenNames(d) == UNION {TokenNames(ParagraphText(p)) : p \in AllParagraphs(d)}

\* C1: extract_placeholders returns exactly the names N whose token {{N}}
\* occurs in a paragraph of the body, of a table cell or of a header or
\* footer, each once, in ascending lexicographic order; no token, no names.
C1_ScanSortedDeduplicated ==
    pc = "scanned" =>
        /\ Range(names) = DocTokenNames(doc)
        /\ \A i, j \in DOMAIN names : i < j => StrLess(names[i], names[j])
        /\ (DocTokenNames(doc) = {} => names = <<>>)

\* a name found both in the body and in a table cell, among several names
C1_Witness ==
    /\ pc = "scanned"
    /\ Len(names) >= 3
    /\ \E n \in Range(names) :
        /\ n \in UNION {TokenNames(ParagraphText(p)) : p \in Range(doc.paragraphs)}
        /\ doc.tables # <<>>
        /\ n \in UNION {TokenNames(ParagraphText(p)) :
                          p \in UNION {Range(cell) : cell \in Range(doc.tables[1].rows[1])}}
        /\ n \notin UNION {TokenNames(ParagraphText(p)) :
                          p \in UNION {Range(doc.sections[s].header)
                                         \cup Range(doc.sections[s].footer) :
                                       s \in DOMAIN doc.sections}}

-----------------------------------------------------------------------------
(* Specification SpecSubst: replace_placeholders on every document of      *)
(* SubstDocs with every replacement map of SubstMaps                       *)

SubstAlphabet == {LB, RB, "A"}

\* the text in one run, and the same text split over two runs
AsRuns(t) ==
    {<<t>>} \cup
    (IF Len(t) >= 2
     THEN {<<SubSeq(t, 1, Len(t) \div 2), SubSeq(t, Len(t) \div 2 + 1, Len(t))>>}
     ELSE {})

\* "{{A}}" split over two runs
ParaTokenA == << <<LB, LB, "A">>, <<RB, RB>> >>
\* "{{B}}-{{AA}}" in two runs
ParaTokenB == << Token(<<"B">>), <<"-">> \o Token(<<"A", "A">>) >>
\* "-" "-": two runs and no placeholder
ParaPlain == << <<"-">>, <<"-">> >>

SubstParas == {ParaTokenA, ParaTokenB, ParaPlain}

SubstDocs ==
    {BodyOnly(p) : p \in UNION {AsRuns(t) : t \in StringsUpTo(SubstAlphabet, MaxTextLen)}}
      \cup {[paragraphs |-> <<b>>, tables |-> t, sections |-> s] :
              b \in SubstParas,
              t \in {<<>>} \cup {<<OneRowTable(<< <<p>>, <<q>> >>)>> : p, q \in SubstParas},
              s \in {<<[header |-> <<h>>, footer |-> <<f>>]>> : h, f \in SubstParas}}

SubstKeys == {<<"A">>, <<"B">>}

\* replacement values: "", "-", "B" and "{{B}}"
SubstValues == {<<>>, <<"-">>, <<"B">>, Token(<<"B">>)}

Items == [key : SubstKeys, value : SubstValues]

\* dicts over SubstKeys, as item sequences in insertion order
SubstMaps ==
    {<<>>} \cup {<<i>> : i \in Items}
      \cup {ij \in Items \X Items : ij[1].key # ij[2].key}

InitSubst ==
    /\ pc = "fill"
    /\ doc \in SubstDocs
    /\ replacements \in SubstMaps
    /\ names = <<>>
    /\ outdoc = NoDoc
    /\ MetaIdle
    /\ AppIdle

ReplacePlaceholders ==
    /\ pc = "fill"
    /\ outdoc' = replace_placeholders(doc, replacements)
    /\ pc' = "filled"
    /\ UNCHANGED <<doc, replacements, names, metaVars, appVars>>

NextSubst == ReplacePlaceholders

SpecSubst == InitSubst /\ [][NextSubst]_vars

-----------------------------------------------------------------------------
(* C2, C3, C9 *)

\* the pairs <<paragraph of d, paragraph of o at the same place>>
ZipParagraphs(ps, qs) == {<<ps[i], qs[i]>> : i \in DOMAIN ps}

ParagraphPairs(d, o) ==
    ZipParagraphs(d.paragraphs, o.paragraphs)
      \cup UNION {UNION {UNION {ZipParagraphs(d.tables[t].rows[r][c],
                                              o.tables[t].rows[r][c]) :
                                  c \in DOMAIN d.tables[t].rows[r]} :
                           r \in DOMAIN d.tables[t].rows} :
                    t \in DOMAIN d.tables}
      \cup UNION {ZipParagraphs(d.sections[s].header, o.sections[s].header)
                    \cup ZipParagraphs(d.sections[s].footer, o.sections[s].footer) :
                    s \in DOMAIN d.sections}

SameShape(d, o) ==
    /\ DOMAIN d.paragraphs = DOMAIN o.paragraphs
    /\ DOMAIN d.tables = DOMAIN o.tables
    /\ DOMAIN d.sections = DOMAIN o.sections

\* one left-to-right pass over the template text: a token of a key becomes
\* the key's value, every other character is copied
RECURSIVE ExpandOnce(_, _)
ExpandOnce(text, items) ==
    IF text = <<>> THEN <<>>
    ELSE IF \E i \in DOMAIN items : StartsWithAt(text, 1, Token(items[i].key))
         THEN LET i == CHOOSE k \in DOMAIN items :
                            StartsWithAt(text, 1, Token(items[k].key))
              IN  items[i].value
                    \o ExpandOnce(SubSeq(text, Len(Token(items[i].key)) + 1, Len(text)),
                                  items)
         ELSE <<Head(text)>> \o ExpandOnce(Tail(text), items)

\* C2: in the output every occurrence of {{name}} of the template with name
\* a key of the map is replaced by the map's value, and everything else,
\* the placeholders of other names included, is the template's text.
C2_EveryKeyReplacedOthersVerbatim ==
    pc = "filled" =>
        \A pq \in ParagraphPairs(doc, outdoc) :
            ParagraphText(pq[2]) = ExpandOnce(ParagraphText(pq[1]), replacements)

\* C3: the text inserted for a key is not matched again: a paragraph that
\* is exactly the token of a key becomes exactly that key's value.
C3_NoRecursiveExpansion ==
    pc = "filled" =>
        \A pq \in ParagraphPairs(doc, outdoc) :
            \A i \in DOMAIN replacements :
                ParagraphText(pq[1]) = Token(replacements[i].key)
                    => ParagraphText(pq[2]) = replacements[i].value

\* C9: a paragraph's runs are altered exactly when its text changes under
\* the substitution; a changed paragraph has exactly one run, carrying the
\* substituted text; an unchanged one, and every paragraph under the empty
\* map, keeps its runs.
C9_RunsCollapsedIffTextChanges ==
    pc = "filled" =>
        /\ SameShape(doc, outdoc)
        /\ \A pq \in ParagraphPairs(doc, outdoc) :
            LET textBefore == ParagraphText(pq[1])
                textAfter == SubstituteAll(textBefore, replacements)
            IN  /\ (pq[2] # pq[1]) <=> (textAfter # textBefore)
                /\ textAfter # textBefore => pq[2] = <<textAfter>>
                /\ textAfter = textBefore => pq[2] = pq[1]
        /\ (replacements = <<>> => outdoc = doc)

\* a document where one paragraph of two runs is collapsed and another
\* paragraph of two runs is kept
C9_Witness ==
    /\ pc = "filled"
    /\ \E pq \in ParagraphPairs(doc, outdoc) :
        Len(pq[1]) = 2 /\ Len(pq[2]) = 1 /\ ParagraphText(pq[2]) # ParagraphText(pq[1])
    /\ \E pq \in ParagraphPairs(doc, outdoc) : Len(pq[1]) = 2 /\ pq[2] = pq[1]

-----------------------------------------------------------------------------
(* Metadata accessor: the documents *)

\* the values of the four fields
MetaValues == {"", "T", "U"}

MetaRecords ==
    [title : MetaValues, creator : MetaValues,
     description : MetaValues, category : MetaValues]

EmptyRecord == [title |-> "", creator |-> "", description |-> "", category |-> ""]

\* x or None
OrNone(x) == IF x = "" THEN None ELSE Some(x)

\* p or "" for a property p that is None or a str
OrEmpty(p) == IF p = None \/ p = Some("") THEN "" ELSE p[1]

\* dict.get(key, default)
Get(d, key, default) == IF key \in DOMAIN d THEN d[key] ELSE default

\* a file is its metadata block followed by its content block
Serialize(d) == <<[fmt |-> d.fmt, meta |-> d.meta], [content |-> d.content]>>

\* Document(path) / PdfReader(path) of a complete file
Parse(bytes) == [fmt |-> bytes[1].fmt, meta |-> bytes[1].meta, content |-> bytes[2].content]

\* the core properties a .docx file may carry before the call
PriorCore ==
    [title : {None, Some("old")}, author : {None, Some("old")},
     creator : {None, Some("old")}, description : {None, Some("old")},
     category : {None, Some("old")}]

PdfKeys == {"/Title", "/Author", "/Subject", "/Category"}

\* the information dictionary a .pdf file may carry before the call
PriorInfo == UNION {[K -> {"old"}] : K \in SUBSET PdfKeys}

PriorFiles ==
    {Serialize([fmt |-> "docx", meta |-> c, content |-> "body"]) : c \in PriorCore}
      \cup {Serialize([fmt |-> "pdf", meta |-> i, content |-> "pages"]) : i \in PriorInfo}

-----------------------------------------------------------------------------
(* read_docx_metadata, write_docx_metadata, read_pdf_metadata,            *)
(* write_pdf_metadata, clear_pdf_metadata: what they compute              *)

read_docx_metadata(d) ==
    ("DC:TITLE" :> OrEmpty(d.meta.title))
      @@ ("DC:CREATOR" :>
            IF OrEmpty(d.meta.author) # "" THEN OrEmpty(d.meta.author)
            ELSE OrEmpty(d.meta.creator))
      @@ ("CP:DESCRIPTION" :> OrEmpty(d.meta.description))
      @@ ("CP:CATEGORY" :> OrEmpty(d.meta.category))

\* lines 82 to 86 without the assignment to props.author
set_core_properties_no_author(d, rec) ==
    [d EXCEPT !.meta =
        [title |-> OrNone(rec.title),
         author |-> d.meta.author,
         creator |-> OrNone(rec.creator),
         description |-> OrNone(rec.description),
         category |-> OrNone(rec.category)]]

\* lines 82 to 86: the document after the five assignments
set_core_properties(d, rec) ==
    [d EXCEPT !.meta =
        [title |-> OrNone(rec.title),
         author |-> OrNone(rec.creator),
         creator |-> OrNone(rec.creator),
         description |-> OrNone(rec.description),
         category |-> OrNone(rec.category)]]

read_pdf_metadata(d) ==
    ("DC:TITLE" :> Get(d.meta, "/Title", ""))
      @@ ("DC:CREATOR" :> Get(d.meta, "/Author", ""))
      @@ ("CP:DESCRIPTION" :> Get(d.meta, "/Subject", ""))
      @@ ("CP:CATEGORY" :> Get(d.meta, "/Category", ""))

\* the information dictionary of a new PdfWriter()
NewWriterInfo == ("/Producer" :> "PyPDF2")

\* a writer that starts from the reader's information dictionary
writer_with_pages_and_info(d) == [fmt |-> "pdf", meta |-> d.meta, content |-> d.content]

\* PdfWriter() followed by add_page for every page of the reader
writer_with_pages(d) == [fmt |-> "pdf", meta |-> NewWriterInfo, content |-> d.content]

\* writer.add_metadata({...}) of write_pdf_metadata
add_metadata(w, rec) ==
    [w EXCEPT !.meta =
        (("/Title" :> rec.title) @@ ("/Author" :> rec.creator)
           @@ ("/Subject" :> rec.description) @@ ("/Category" :> rec.category))
        @@ w.meta]

-----------------------------------------------------------------------------
(* Specification SpecMeta: one call of a metadata function on the file at  *)
(* path, step by step, each step succeeding or raising, then a read        *)

InitMeta ==
    /\ pc = "unused"
    /\ doc = NoDoc
    /\ replacements = <<>>
    /\ names = <<>>
    /\ outdoc = NoDoc
    /\ mpc = "idle"
    /\ call = NoCall
    /\ target \in PriorFiles
    /\ tmpfile = NoFile
    /\ memdoc = None
    /\ before = target
    /\ failedAt = "none"
    /\ sameDevice \in BOOLEAN
    /\ readback = None
    /\ AppIdle

Fmt(bytes) == Parse(bytes).fmt

\* the call starts and the source is loaded into memory
Load(fn, rec, loaded) ==
    /\ mpc = "idle"
    /\ call' = [fn |-> fn, rec |-> rec]
    /\ before' = target
    /\ memdoc' = loaded
    /\ mpc' = "loaded"
    /\ UNCHANGED <<engineVars, appVars, target, tmpfile, failedAt, sameDevice, readback>>

Raise(step) ==
    /\ mpc' = "raised"
    /\ failedAt' = step

\* write_docx_metadata, lines 80 to 86
WriteDocxLoad ==
    \E rec \in MetaRecords :
        /\ mpc = "idle"
        /\ Fmt(target) = "docx"
        /\ Load("write_docx_metadata", rec, set_core_properties(Parse(target), rec))

\* clear_docx_metadata: write_docx_metadata(path, "", "", "", "")
ClearDocxLoad ==
    /\ mpc = "idle"
    /\ Fmt(target) = "docx"
    /\ Load("clear_docx_metadata", EmptyRecord,
            set_core_properties(Parse(target), EmptyRecord))

\* write_pdf_metadata, lines 109 to 118
WritePdfLoad ==
    \E rec \in MetaRecords :
        /\ mpc = "idle"
        /\ Fmt(target) = "pdf"
        /\ Load("write_pdf_metadata", rec,
                add_metadata(writer_with_pages(Parse(target)), rec))

\* clear_pdf_metadata, lines 126 to 129
ClearPdfLoad ==
    /\ mpc = "idle"
    /\ Fmt(target) = "pdf"
    /\ Load("clear_pdf_metadata", EmptyRecord, writer_with_pages(Parse(target)))

\* Document(path) / PdfReader(path) / reader.pages raises
LoadFails ==
    /\ mpc = "idle"
    /\ \E fn \in IF Fmt(target) = "docx"
                 THEN {"write_docx_metadata", "clear_docx_metadata"}
                 ELSE {"write_pdf_metadata", "clear_pdf_metadata"} :
          call' = [fn |-> fn, rec |-> EmptyRecord]
    /\ before' = target
    /\ Raise("load")
    /\ UNCHANGED <<engineVars, appVars, target, tmpfile, memdoc, sameDevice, readback>>

\* tempfile.NamedTemporaryFile(delete=False, ...) creates an empty file
CreateTemp ==
    /\ mpc = "loaded"
    /\ tmpfile' = <<>>
    /\ mpc' = "temp_created"
    /\ UNCHANGED <<engineVars, appVars, call, target, memdoc, before, failedAt, sameDevice, readback>>

CreateTempFails ==
    /\ mpc = "loaded"
    /\ Raise("create_temp")
    /\ UNCHANGED <<engineVars, appVars, call, target, tmpfile, memdoc, before, sameDevice, readback>>

\* document.save(temp_name) / writer.write(tmp)
SaveTemp ==
    /\ mpc = "temp_created"
    /\ tmpfile' = Serialize(memdoc)
    /\ mpc' = "temp_written"
    /\ UNCHANGED <<engineVars, appVars, call, target, memdoc, before, failedAt, sameDevice, readback>>

\* the write of the temporary file raises after k blocks
SaveTempFails ==
    /\ mpc = "temp_created"
    /\ \E k \in 0..(Len(Serialize(memdoc)) - 1) :
          tmpfile' = SubSeq(Serialize(memdoc), 1, k)
    /\ Raise("save_temp")
    /\ UNCHANGED <<engineVars, appVars, call, target, memdoc, before, sameDevice, readback>>

\* shutil.move on one file system: os.rename replaces the file at path
MoveRename ==
    /\ mpc = "temp_written"
    /\ sameDevice
    /\ target' = tmpfile
    /\ tmpfile' = NoFile
    /\ mpc' = "returned"
    /\ UNCHANGED <<engineVars, appVars, call, memdoc, before, failedAt, sameDevice, readback>>

\* os.rename raises for another reason than a different file system; the
\* copy that shutil.move then attempts cannot open path either
MoveFails ==
    /\ mpc = "temp_written"
    /\ Raise("move")
    /\ UNCHANGED <<engineVars, appVars, call, target, tmpfile, memdoc, before, sameDevice, readback>>

\* shutil.move across file systems: os.rename raises OSError and
\* copy2(temp_name, path) opens path for writing, which truncates it
MoveCopyOpen ==
    /\ mpc = "temp_written"
    /\ ~sameDevice
    /\ target' = <<>>
    /\ mpc' = "copying"
    /\ UNCHANGED <<engineVars, appVars, call, tmpfile, memdoc, before, failedAt, sameDevice, readback>>

\* the copy writes the next block of the temporary file to path
MoveCopyBlock ==
    /\ mpc = "copying"
    /\ Len(target) < Len(tmpfile)
    /\ target' = Append(target, tmpfile[Len(target) + 1])
    /\ UNCHANGED <<engineVars, appVars, mpc, call, tmpfile, memdoc, before, failedAt, sameDevice, readback>>

\* the copy raises before all blocks are written
MoveCopyFails ==
    /\ mpc = "copying"
    /\ Len(target) < Len(tmpfile)
    /\ Raise("copy")
    /\ UNCHANGED <<engineVars, appVars, call, target, tmpfile, memdoc, before, sameDevice, readback>>

\* the copy is complete: os.unlink(temp_name)
MoveUnlink ==
    /\ mpc = "copying"
    /\ Len(target) = Len(tmpfile)
    /\ tmpfile' = NoFile
    /\ mpc' = "returned"
    /\ UNCHANGED <<engineVars, appVars, call, target, memdoc, before, failedAt, sameDevice, readback>>

MoveUnlinkFails ==
    /\ mpc = "copying"
    /\ Len(target) = Len(tmpfile)
    /\ Raise("unlink")
    /\ UNCHANGED <<engineVars, appVars, call, target, tmpfile, memdoc, before, sameDevice, readback>>

\* read_docx_metadata(path) / read_pdf_metadata(path) after the call returned
ReadMetadata ==
    /\ mpc = "returned"
    /\ readback' = IF Fmt(target) = "docx"
                   THEN read_docx_metadata(Parse(target))
                   ELSE read_pdf_metadata(Parse(target))
    /\ mpc' = "read"
    /\ UNCHANGED <<engineVars, appVars, call, target, tmpfile, memdoc, before, failedAt, sameDevice>>

NextMeta ==
    \/ WriteDocxLoad
    \/ ClearDocxLoad
    \/ WritePdfLoad
    \/ ClearPdfLoad
    \/ LoadFails
    \/ CreateTemp
    \/ CreateTempFails
    \/ SaveTemp
    \/ SaveTempFails
    \/ MoveRename
    \/ MoveFails
    \/ MoveCopyOpen
    \/ MoveCopyBlock
    \/ MoveCopyFails
    \/ MoveUnlink
    \/ MoveUnlinkFails
    \/ ReadMetadata

SpecMeta == InitMeta /\ [][NextMeta]_vars

-----------------------------------------------------------------------------
(* C4, C5, C6, C7 *)

IsWrite == call.fn \in {"write_docx_metadata", "write_pdf_metadata"}
IsClear == call.fn \in {"clear_docx_metadata", "clear_pdf_metadata"}

NonEmpty(rec) ==
    rec.title # "" /\ rec.creator # "" /\ rec.description # "" /\ rec.category # ""

AsRecord(d) ==
    [title |-> d["DC:TITLE"], creator |-> d["DC:CREATOR"],
     description |-> d["CP:DESCRIPTION"], category |-> d["CP:CATEGORY"]]

\* C4: when a step of a metadata write or clear raises before the replace
\* of the file at path is complete (load, temporary file, move; the copy of
\* a cross-device move included), the file at path has the bytes it had
\* before the call.
C4_FailureLeavesTargetIdentical ==
    (mpc = "raised" /\ failedAt # "unlink") => target = before

\* C5: after a write of four non-empty fields the read returns the same
\* four fields, for .docx and for .pdf.
C5_WriteThenReadRoundTrip ==
    (mpc = "read" /\ IsWrite /\ NonEmpty(call.rec)) => AsRecord(readback) = call.rec

\* a round trip on a .docx file that carried other metadata, moved by copy
C5_Witness ==
    /\ mpc = "read"
    /\ call.fn = "write_docx_metadata"
    /\ NonEmpty(call.rec)
    /\ call.rec.title # call.rec.creator
    /\ Parse(before).meta.author = Some("old")
    /\ ~sameDevice

\* C6: after a clear, or a write of the all-empty record, whatever the
\* file carried before, the read returns "" for all four fields.
C6_ClearThenReadAllEmpty ==
    (mpc = "read" /\ (IsClear \/ (IsWrite /\ call.rec = EmptyRecord)))
        => AsRecord(readback) = EmptyRecord

\* clear_pdf_metadata on a file that carried all four entries
C6_Witness ==
    /\ mpc = "read"
    /\ call.fn = "clear_pdf_metadata"
    /\ DOMAIN Parse(before).meta = PdfKeys

\* the stored value of a field: None when the store has no such entry
Stored(d, field) ==
    IF d.fmt = "docx"
    THEN (CASE field = "title" -> d.meta.title
            [] field = "creator" -> d.meta.author
            [] field = "description" -> d.meta.description
            [] field = "category" -> d.meta.category)
    ELSE LET key == CASE field = "title" -> "/Title"
                      [] field = "creator" -> "/Author"
                      [] field = "description" -> "/Subject"
                      [] field = "category" -> "/Category"
         IN  IF key \in DOMAIN d.meta THEN Some(d.meta[key]) ELSE None

\* C7: after a write, a field written as "" is absent from the file's
\* metadata store (not stored as an empty string) and a field written with
\* a non-empty value is stored with that value.
C7_EmptyFieldStoredAbsent ==
    (mpc \in {"returned", "read"} /\ IsWrite) =>
        \A field \in DOMAIN call.rec :
            Stored(Parse(target), field) =
                IF call.rec[field] = "" THEN None ELSE Some(call.rec[field])

-----------------------------------------------------------------------------
(* CurriculumApp: the files and the session state *)

\* the handlers one session runs
MaxOps == 3

Paths == {"cv.docx", "out.docx", "cv.pdf", "notes.txt"}

\* the suffix path.lower().endswith(...) tests
Ext(path) ==
    IF path \in {"cv.docx", "out.docx"} THEN ".docx"
    ELSE IF path = "cv.pdf" THEN ".pdf"
    ELSE ".txt"

NoCore ==
    [title |-> None, author |-> None, creator |-> None,
     description |-> None, category |-> None]

DocxFile(content, core) == [fmt |-> "docx", meta |-> core, content |-> content]
PdfFile(info) == [fmt |-> "pdf", meta |-> info, content |-> NoDoc]
\* a file that neither Document() nor PdfReader() can load
JunkFile == [fmt |-> "junk", meta |-> <<>>, content |-> NoDoc]
AbsentFile == [fmt |-> "absent", meta |-> <<>>, content |-> NoDoc]

\* "{{A}}" in the body, "{{B}}" in the footer
TemplateAB ==
    [paragraphs |-> <<ParaTokenA>>, tables |-> <<>>,
     sections |-> <<[header |-> <<>>, footer |-> << <<Token(<<"B">>)>> >>]>>]

TemplateDocs == {TemplateAB, BodyOnly(ParaPlain)}

\* what the user types into a placeholder field
EntryValues == {<<>>, <<"-">>}

\* what the user types into the four metadata fields
EditChoices ==
    {EmptyRecord,
     [title |-> "T", creator |-> "U", description |-> "", category |-> "T"]}

Session ==
    [template_path |-> template_path, placeholder_entries |-> placeholder_entries,
     editing_path |-> editing_path, edit_entries |-> edit_entries]

\* the paths an open dialog returns: an existing file, or "" on cancel
OpenChoices == {""} \cup {p \in Paths : fs[p].fmt # "absent"}

\* the paths the save dialog returns
SaveChoices == {"", "cv.docx", "out.docx"}

InitApp ==
    /\ pc = "unused"
    /\ doc = NoDoc
    /\ replacements = <<>>
    /\ names = <<>>
    /\ outdoc = NoDoc
    /\ MetaIdle
    /\ \E t \in TemplateDocs :
          fs = [p \in Paths |->
                  CASE p = "cv.docx" -> DocxFile(t, [NoCore EXCEPT !.creator = Some("old")])
                    [] p = "out.docx" -> AbsentFile
                    [] p = "cv.pdf" -> PdfFile("/Title" :> "old")
                    [] p = "notes.txt" -> JunkFile]
    /\ template_path = ""
    /\ placeholder_entries = <<>>
    /\ editing_path = ""
    /\ edit_entries = EmptyRecord
    /\ metadata_text = None
    /\ message = "none"
    /\ lastOp = "none"
    /\ lastScanned = <<>>
    /\ prevSession = Session
    /\ prevFs = fs
    /\ ops = 0

\* a handler starts
Handler(op) ==
    /\ ops < MaxOps
    /\ ops' = ops + 1
    /\ lastOp' = op
    /\ prevSession' = Session
    /\ prevFs' = fs
    /\ UNCHANGED <<engineVars, metaVars>>

\* the outcome of shutil.move(temp_name, path) and the steps before it
Replace(path, file, io) ==
    CASE io = "ok" -> message' = "info" /\ fs' = [fs EXCEPT ![path] = file]
      [] io = "error" -> message' = "error" /\ fs' = fs
      [] io = "error_in_copy" -> message' = "error" /\ fs' = [fs EXCEPT ![path] = JunkFile]

MoveOutcomes == {"ok", "error", "error_in_copy"}

\* _load_template with self.template_path = path moved before the try
LoadTemplateAssignFirst(path) ==
    /\ Handler("_load_template")
    /\ IF path = ""
       THEN /\ message' = "none"
            /\ UNCHANGED <<template_path, placeholder_entries, lastScanned>>
       ELSE IF fs[path].fmt # "docx"
       THEN /\ message' = "error"
            /\ template_path' = path
            /\ UNCHANGED <<placeholder_entries, lastScanned>>
       ELSE LET placeholders == extract_placeholders(fs[path].content)
            IN  /\ template_path' = path
                /\ placeholder_entries' =
                      [i \in DOMAIN placeholders |-> [key |-> placeholders[i], value |-> <<>>]]
                /\ lastScanned' = placeholders
                /\ message' = "none"
    /\ UNCHANGED <<fs, editing_path, edit_entries, metadata_text>>

LoadTemplate(path) ==
    /\ Handler("_load_template")
    /\ IF path = ""
       THEN /\ message' = "none"
            /\ UNCHANGED <<template_path, placeholder_entries, lastScanned>>
       ELSE IF fs[path].fmt # "docx"
       THEN /\ message' = "error"
            /\ UNCHANGED <<template_path, placeholder_entries, lastScanned>>
       ELSE LET placeholders == extract_placeholders(fs[path].content)
            IN  /\ template_path' = path
                /\ placeholder_entries' =
                      [i \in DOMAIN placeholders |-> [key |-> placeholders[i], value |-> <<>>]]
                /\ lastScanned' = placeholders
                /\ message' = "none"
    /\ UNCHANGED <<fs, editing_path, edit_entries, metadata_text>>

\* the user types into one placeholder field
TypePlaceholder(i, text) ==
    /\ i \in DOMAIN placeholder_entries
    /\ placeholder_entries[i].value # text
    /\ placeholder_entries' = [placeholder_entries EXCEPT ![i].value = text]
    /\ message' = "none"
    /\ lastOp' = "type"
    /\ prevSession' = Session
    /\ prevFs' = fs
    /\ UNCHANGED <<engineVars, metaVars, fs, template_path, editing_path,
                   edit_entries, metadata_text, lastScanned, ops>>

GenerateDocument(confirm, save_path, io) ==
    /\ Handler("_generate_document")
    /\ IF template_path = ""
       THEN message' = "warning" /\ fs' = fs
       ELSE IF (\E i \in DOMAIN placeholder_entries : placeholder_entries[i].value = <<>>)
                 /\ ~confirm
       THEN message' = "none" /\ fs' = fs
       ELSE IF save_path = ""
       THEN message' = "none" /\ fs' = fs
       ELSE IF fs[template_path].fmt # "docx" \/ io = "error"
       THEN message' = "error" /\ fs' = fs
       ELSE IF io = "error_in_save"
       THEN message' = "error" /\ fs' = [fs EXCEPT ![save_path] = JunkFile]
       ELSE /\ message' = "info"
            /\ fs' = [fs EXCEPT ![save_path] =
                        DocxFile(replace_placeholders(fs[template_path].content,
                                                      placeholder_entries),
                                 fs[template_path].meta)]
    /\ UNCHANGED <<template_path, placeholder_entries, editing_path, edit_entries,
                   metadata_text, lastScanned>>

ClearMetadata(path, io) ==
    /\ Handler("_clear_metadata")
    /\ IF path = ""
       THEN message' = "none" /\ fs' = fs
       ELSE IF Ext(path) = ".docx" /\ fs[path].fmt = "docx"
       THEN Replace(path, set_core_properties(fs[path], EmptyRecord), io)
       ELSE IF Ext(path) = ".pdf" /\ fs[path].fmt = "pdf"
       THEN Replace(path, writer_with_pages(fs[path]), io)
       ELSE message' = "error" /\ fs' = fs
    /\ UNCHANGED <<template_path, placeholder_entries, editing_path, edit_entries,
                   metadata_text, lastScanned>>

\* the try block of _read_metadata and _load_for_edit can be left normally
CanRead(path) ==
    \/ Ext(path) = ".docx" /\ fs[path].fmt = "docx"
    \/ Ext(path) = ".pdf" /\ fs[path].fmt = "pdf"

ReadOf(path) ==
    IF Ext(path) = ".docx" THEN read_docx_metadata(fs[path]) ELSE read_pdf_metadata(fs[path])

ReadMetadataTab(path) ==
    /\ Handler("_read_metadata")
    /\ IF path = ""
       THEN message' = "none" /\ UNCHANGED metadata_text
       ELSE IF ~CanRead(path)
       THEN message' = "error" /\ UNCHANGED metadata_text
       ELSE message' = "none" /\ metadata_text' = ReadOf(path)
    /\ UNCHANGED <<fs, template_path, placeholder_entries, editing_path, edit_entries,
                   lastScanned>>

LoadForEdit(path) ==
    /\ Handler("_load_for_edit")
    /\ IF path = ""
       THEN message' = "none" /\ UNCHANGED <<editing_path, edit_entries>>
       ELSE IF ~CanRead(path)
       THEN message' = "error" /\ UNCHANGED <<editing_path, edit_entries>>
       ELSE /\ message' = "none"
            /\ editing_path' = path
            /\ edit_entries' = AsRecord(ReadOf(path))
    /\ UNCHANGED <<fs, template_path, placeholder_entries, metadata_text, lastScanned>>

\* the user fills the four metadata fields
TypeEdit(rec) ==
    /\ edit_entries # rec
    /\ edit_entries' = rec
    /\ message' = "none"
    /\ lastOp' = "type"
    /\ prevSession' = Session
    /\ prevFs' = fs
    /\ UNCHANGED <<engineVars, metaVars, fs, template_path, placeholder_entries,
                   editing_path, metadata_text, lastScanned, ops>>

SaveMetadata(io) ==
    /\ Handler("_save_metadata")
    /\ IF editing_path = ""
       THEN message' = "warning" /\ fs' = fs
       ELSE IF Ext(editing_path) = ".docx" /\ fs[editing_path].fmt = "docx"
       THEN Replace(editing_path, set_core_properties(fs[editing_path], edit_entries), io)
       ELSE IF Ext(editing_path) = ".pdf" /\ fs[editing_path].fmt = "pdf"
       THEN Replace(editing_path,
                    add_metadata(writer_with_pages(fs[editing_path]), edit_entries), io)
       ELSE message' = "error" /\ fs' = fs
    /\ UNCHANGED <<template_path, placeholder_entries, editing_path, edit_entries,
                   metadata_text, lastScanned>>

NextApp ==
    \/ \E path \in OpenChoices : LoadTemplate(path)
    \/ \E i \in DOMAIN placeholder_entries, text \in EntryValues : TypePlaceholder(i, text)
    \/ \E confirm \in BOOLEAN, save_path \in SaveChoices,
          io \in {"ok", "error", "error_in_save"} :
          GenerateDocument(confirm, save_path, io)
    \/ \E path \in OpenChoices, io \in MoveOutcomes : ClearMetadata(path, io)
    \/ \E path \in OpenChoices : ReadMetadataTab(path)
    \/ \E path \in OpenChoices : LoadForEdit(path)
    \/ \E rec \in EditChoices : TypeEdit(rec)
    \/ \E io \in MoveOutcomes : SaveMetadata(io)

SpecApp == InitApp /\ [][NextApp]_vars

-----------------------------------------------------------------------------
(* C8, C10 *)

\* C8: after replace_placeholders, whatever the destination, the file at
\* the template path has the content it had before the call.
C8_TemplateFileNeverMutated ==
    (lastOp = "_generate_document" /\ template_path # "")
        => fs[template_path] = prevFs[template_path]

EntryNames == [i \in DOMAIN placeholder_entries |-> placeholder_entries[i].key]

\* C10: a handler that fails reports the error and leaves the session state
\* (template path, placeholder fields, editing path, metadata fields) as it
\* was when the handler started, and the names of the placeholder fields are
\* the names scanned by the last successful template load.
C10_FailureKeepsSession ==
    /\ message = "error" => Session = prevSession
    /\ EntryNames = lastScanned
    /\ template_path = "" => placeholder_entries = <<>>

\* a template load that fails after a template and an edit target were chosen
C10_Witness ==
    /\ message = "error"
    /\ lastOp = "_load_template"
    /\ template_path # ""
    /\ Len(placeholder_entries) >= 2
    /\ editing_path # ""

====
